---- MODULE Spec2Model ----
(***************************************************************************)
(* CultivaLab: crop lifecycle service (services.py) over the file-backed   *)
(* JSON store (storage.py).                                                *)
(*                                                                         *)
(* Numbers.  The program computes with Python floats; the model uses      *)
(* fixed point.  Weather values and the crop type's optimal_temp,          *)
(* needed_water and needed_light are in hundredths (25.0 -> 2500), growth  *)
(* factors are in thousandths (1.0 -> 1000) and biomass is in thousandths  *)
(* (100 g/m2 -> 100000).  Divisions truncate.                              *)
(*                                                                         *)
(* Records.  The variable models_rev selects the record classes:           *)
(*   "src"   - the dataclasses of src/cultiva-lab/models.py as they are;   *)
(*   "final" - records with the fields services.py passes to the           *)
(*             constructors (Crop with a name, DailyCondition with         *)
(*             estimated_biomass, User with crop_ids defaulting to []).    *)
(***************************************************************************)
EXTENDS Integers, Sequences, FiniteSets, TLC

VARIABLES db, ret, models_rev, procs, last_writer

vars == <<db, ret, models_rev, procs, last_writer>>

(***************************************************************************)
(* Bounds and input domains                                                *)
(***************************************************************************)
DaysCycle == 3

\* the ids uuid4 can return
CropIds == {"c1"}
MissingCropId == "cX"
CallCropIds == CropIds \cup {MissingCropId}
UserIds == {"u1", "adm"}
CallUserIds == UserIds \cup {"ghost"}
CallTypeIds == {"t1", "tX"}
Names == {"", " ", "wheat"}
StartDates == {0}

\* <<temperature, rain, sun_hours>> in hundredths
Ideal == <<2500, 500, 800>>
Cold == <<-1000, 250, 2400>>
Boundary == <<5669, 0, 0>>
ValidWeathers == {Ideal, Cold, Boundary}
InvalidWeathers ==
    { <<-1001, 500, 800>>, <<5670, 500, 800>>, <<2500, -1, 800>>,
      <<2500, 500, -1>>, <<2500, 500, 2401>> }
Weathers == ValidWeathers \cup InvalidWeathers

\* keyword arguments of update_crops, in call order
Kwargs == { <<>>,
            << <<"name", "maize">> >>,
            << <<"active", FALSE>> >>,
            << <<"active", TRUE>> >>,
            << <<"user_id", "adm">> >>,
            << <<"name", "maize">>, <<"user_id", "adm">> >> }

(***************************************************************************)
(* models.py                                                               *)
(***************************************************************************)
None == [none |-> TRUE]

\* UserRole(value): enum lookup by value
UserRole(value) == IF value = "admin" THEN "ADMIN" ELSE "USER"

\* UserRole.value
RoleValue(role) == IF role = "ADMIN" THEN "admin" ELSE "user"

\* UserRole is decorated with @dataclass and declares no annotated field:
\* the generated __eq__ compares the (empty) field tuples of two members of
\* the same class, so any two members compare equal.
UserRole_eq(a, b) == TRUE

\* a != b, Python's default __ne__: the negation of __eq__
UserRole_ne(a, b) == ~UserRole_eq(a, b)

TypeErrorValue == [type_error |-> TRUE]

\* models.py as it is: the fields of DailyCondition are day, temperature,
\* rain and sun_hours (expected_biomass = float is a class attribute, not a
\* field), so the keyword estimated_biomass is rejected by __init__.
DailyCondition_src(day, temperature, rain, sun_hours, estimated_biomass) ==
    TypeErrorValue

\* the record of the data model: estimated_biomass is a field
DailyCondition_final(day, temperature, rain, sun_hours, estimated_biomass) ==
    [day |-> day, temperature |-> temperature, rain |-> rain,
     sun_hours |-> sun_hours, estimated_biomass |-> estimated_biomass]

\* DailyCondition(day=, temperature=, rain=, sun_hours=, estimated_biomass=)
DailyCondition(rev, day, temperature, rain, sun_hours, estimated_biomass) ==
    IF rev = "src"
    THEN DailyCondition_src(day, temperature, rain, sun_hours, estimated_biomass)
    ELSE DailyCondition_final(day, temperature, rain, sun_hours, estimated_biomass)

\* models.py as it is: Crop has seven fields and no name, so the eight
\* positional arguments of create_crop are rejected by __init__.
Crop_src(id, name, user_id, crop_type_id, start_date, last_sim_date, conditions, active) ==
    TypeErrorValue

\* the record create_crop builds: a crop with a name
Crop_final(id, name, user_id, crop_type_id, start_date, last_sim_date, conditions, active) ==
    [id |-> id, name |-> name, user_id |-> user_id,
     crop_type_id |-> crop_type_id, start_date |-> start_date,
     last_sim_date |-> last_sim_date, conditions |-> conditions,
     active |-> active]

\* Crop(crop_unique_id, name, user_id, crop_type_id, start_date, start_date, [], True)
Crop(rev, id, name, user_id, crop_type_id, start_date, last_sim_date, conditions, active) ==
    IF rev = "src"
    THEN Crop_src(id, name, user_id, crop_type_id, start_date, last_sim_date,
                  conditions, active)
    ELSE Crop_final(id, name, user_id, crop_type_id, start_date, last_sim_date,
                    conditions, active)

(***************************************************************************)
(* storage.py: JSONStorage.  db is the content of the JSON file.           *)
(***************************************************************************)
\* datetime.isoformat()
isoformat(d) == [iso |-> d]

\* datetime.fromisoformat()
fromisoformat(s) == s.iso

\* index of the first record of s with this id, 0 when there is none
FirstIndex(s, id) ==
    IF \E i \in 1..Len(s) : s[i].id = id
    THEN CHOOSE i \in 1..Len(s) :
             s[i].id = id /\ \A j \in 1..(i - 1) : s[j].id # id
    ELSE 0

read(d) == [users |-> d.users, crops |-> d.crops, crop_types |-> d.crop_types]

\* variant: the role stays the string of the file
LoadUser_rawRole(u) == u

\* User(**user_data) with the role converted to the enum
LoadUser(u) == [u EXCEPT !.role = UserRole(u.role)]

\* Crop(**crop_data) with the dates parsed and the conditions rebuilt
LoadCrop(c) ==
    [c EXCEPT !.start_date = fromisoformat(c.start_date),
              !.last_sim_date = fromisoformat(c.last_sim_date)]

storage_get_user_by_id(d, user_id) ==
    LET users == read(d).users
        i == FirstIndex(users, user_id)
    IN IF i = 0 THEN None ELSE LoadUser(users[i])

\* index of the first record of s with this username, 0 when there is none
FirstIndexByUsername(s, username) ==
    IF \E i \in 1..Len(s) : s[i].username = username
    THEN CHOOSE i \in 1..Len(s) :
             s[i].username = username /\ \A j \in 1..(i - 1) : s[j].username # username
    ELSE 0

storage_get_user_by_username(d, username) ==
    LET users == read(d).users
        i == FirstIndexByUsername(users, username)
    IN IF i = 0 THEN None ELSE LoadUser(users[i])


storage_get_crop_by_id(d, crop_id) ==
    LET crops == read(d).crops
        i == FirstIndex(crops, crop_id)
    IN IF i = 0 THEN None ELSE LoadCrop(crops[i])

storage_get_crop_type_by_id(d, crop_type_id) ==
    LET types == read(d).crop_types
        i == FirstIndex(types, crop_type_id)
    IN IF i = 0 THEN None ELSE types[i]

\* asdict(crop) with the two dates in ISO format
DumpCrop(crop) ==
    [crop EXCEPT !.start_date = isoformat(crop.start_date),
                 !.last_sim_date = isoformat(crop.last_sim_date)]

\* asdict(user) with the role as its string value
DumpUser(user) == [user EXCEPT !.role = RoleValue(user.role)]

\* variant: the record is appended whether or not the id is stored
Upsert_appendAlways(s, rec) == Append(s, rec)

\* replace the first record with the same id in place, else append
Upsert(s, rec) ==
    LET i == FirstIndex(s, rec.id)
    IN IF i = 0 THEN Append(s, rec) ELSE [s EXCEPT ![i] = rec]

\* variant: the records after the removed one are dropped with it
RemoveById_truncate(s, id) ==
    LET i == FirstIndex(s, id)
    IN IF i = 0 THEN s
       ELSE SubSeq(s, 1, i - 1)

\* remove the first record with this id, if any
RemoveById(s, id) ==
    LET i == FirstIndex(s, id)
    IN IF i = 0 THEN s
       ELSE SubSeq(s, 1, i - 1) \o SubSeq(s, i + 1, Len(s))

\* variant: a record that exists is kept as it is
PutCrop_keepStored(data, crop) ==
    IF FirstIndex(data.crops, crop.id) = 0
    THEN [data EXCEPT !.crops = Append(data.crops, DumpCrop(crop))]
    ELSE data

\* variant: a record that exists keeps its conditions and gets the new last one
PutCrop_merge(data, crop) ==
    LET i == FirstIndex(data.crops, crop.id)
    IN IF i = 0 \/ crop.conditions = <<>>
       THEN [data EXCEPT !.crops = Upsert(data.crops, DumpCrop(crop))]
       ELSE [data EXCEPT !.crops[i] =
                [DumpCrop(crop) EXCEPT !.conditions =
                    Append(data.crops[i].conditions,
                           crop.conditions[Len(crop.conditions)])]]

\* save_crop between its read() and its save(): the crop is put into data
PutCrop(data, crop) == [data EXCEPT !.crops = Upsert(data.crops, DumpCrop(crop))]

storage_save_crop(d, crop) ==
    LET data == read(d)
    IN PutCrop(data, crop)

storage_save_user(d, user) ==
    LET data == read(d)
    IN [data EXCEPT !.users = Upsert(data.users, DumpUser(user))]

storage_delete_user(d, user_id) ==
    LET data == read(d)
    IN [data EXCEPT !.users = RemoveById(data.users, user_id)]

\* variant: the id is taken off every user's crop_ids as well
storage_delete_crop_cascade(d, crop_id) ==
    LET data == read(d)
    IN [data EXCEPT
           !.crops = RemoveById(data.crops, crop_id),
           !.users = [i \in 1..Len(data.users) |->
                         [data.users[i] EXCEPT !.crop_ids =
                             SelectSeq(data.users[i].crop_ids,
                                       LAMBDA c : c # crop_id)]]]


storage_delete_crop(d, crop_id) ==
    LET data == read(d)
    IN [data EXCEPT !.crops = RemoveById(data.crops, crop_id)]

(***************************************************************************)
(* services.py: growth model                                               *)
(***************************************************************************)
Max(a, b) == IF a >= b THEN a ELSE b
Min(a, b) == IF a <= b THEN a ELSE b
Abs(a) == IF a >= 0 THEN a ELSE -a

Unit == 1000

RECURSIVE SqrtSearch(_, _, _)
SqrtSearch(n, lo, hi) ==
    IF lo >= hi THEN lo
    ELSE LET mid == (lo + hi + 1) \div 2
         IN IF mid * mid <= n THEN SqrtSearch(n, mid, hi)
            ELSE SqrtSearch(n, lo, mid - 1)

\* floor of the square root
ISqrt(n) == SqrtSearch(n, 0, 46340)

\* x ** 1.5 for x in thousandths
Pow15(x) == ISqrt((x * x * x) \div Unit)

_calculate_environment_factor(crop_type, temperature, rain, sun_hours) ==
    LET temperature_factor ==
            Max(0, Unit - ((Abs(temperature - crop_type.optimal_temp) * Unit)
                              \div crop_type.optimal_temp) \div 2)
        rain_factor ==
            IF crop_type.needed_water > 0
            THEN Min(Unit, (rain * Unit) \div crop_type.needed_water)
            ELSE Unit
        sun_hours_factor ==
            IF crop_type.needed_light > 0
            THEN Min(Unit, (sun_hours * Unit) \div crop_type.needed_light)
            ELSE Unit
    IN (((temperature_factor * rain_factor) \div Unit) * sun_hours_factor) \div Unit

\* variant: no ramp in the first fifth of the cycle
_calculate_phase_factor_noRamp(crop, crop_type) ==
    LET current_day == Len(crop.conditions) + 1
    IN IF current_day * 10 < 7 * crop_type.days_cycle
       THEN Unit
       ELSE Max(200, 1500 - (current_day * Unit) \div crop_type.days_cycle)

_calculate_phase_factor(crop, crop_type) ==
    LET current_day == Len(crop.conditions) + 1
        \* phase = current_day / days_cycle, compared exactly
    IN IF current_day * 10 < 2 * crop_type.days_cycle
       THEN 500 + (current_day * 2500) \div crop_type.days_cycle
       ELSE IF current_day * 10 < 7 * crop_type.days_cycle
            THEN Unit
            ELSE Max(200, 1500 - (current_day * Unit) \div crop_type.days_cycle)

\* variant: the first-day value is used on every day
CurrentBiomass_initial(crop, crop_type) == crop_type.initial_biomass

\* the last recorded estimated_biomass, or initial_biomass on the first day
CurrentBiomass(crop, crop_type) ==
    IF Len(crop.conditions) > 0
    THEN crop.conditions[Len(crop.conditions)].estimated_biomass
    ELSE crop_type.initial_biomass

_calculate_capacity_factor(crop, crop_type) ==
    LET current_biomass == CurrentBiomass(crop, crop_type)
    IN Max(0, ((crop_type.potential_performance - current_biomass) * Unit)
                 \div crop_type.potential_performance)

_calculate_growth(crop_type, env_factor, phase_factor, capacity_factor) ==
    LET total_factor ==
            Pow15((((env_factor * phase_factor) \div Unit) * capacity_factor) \div Unit)
        \* potential_performance * base_rate * total_factor, base_rate = 0.05
    IN ((crop_type.potential_performance \div 20) * total_factor) \div Unit

(***************************************************************************)
(* services.py: CropService.  Every handler maps the file content d and    *)
(* its arguments to an outcome: the exception raised ("none" when the call *)
(* returns), the file content afterwards and the returned value.           *)
(***************************************************************************)
Raise(e, d) == [err |-> e, db |-> d, value |-> None]
Return(v, d) == [err |-> "none", db |-> d, value |-> v]

\* new_biomass = min(current_biomass + growth, potential_performance)
NewBiomass(current_biomass, growth, crop_type) ==
    Min(current_biomass + growth, crop_type.potential_performance)

\* variant: the upper bound is accepted
TemperatureNotReal_inclusive(temperature) == temperature > 5670 \/ temperature < -1000

\* (temperature >= 56.7) or temperature < -10
TemperatureNotReal(temperature) == temperature >= 5670 \/ temperature < -1000

\* rain < 0
RainInvalid(rain) == rain < 0

\* sun_hours < 0 or sun_hours > 24
SunHoursInvalid(sun_hours) == sun_hours < 0 \/ sun_hours > 2400

\* variant: callers whose stored role is admin pass the ownership check
NotOwner_adminOverride(d, crop, user_id) ==
    /\ crop.user_id # user_id
    /\ ~(\E i \in 1..Len(d.users) :
             d.users[i].id = user_id /\ d.users[i].role = "admin")

\* crop.user_id != user_id
NotOwner(d, crop, user_id) == crop.user_id # user_id

\* variant: the bound is compared with > instead of >=
CycleFinished_strict(crop, crop_type) == Len(crop.conditions) > crop_type.days_cycle

\* len(crop.conditions) >= crop_type.days_cycle
CycleFinished(crop, crop_type) == Len(crop.conditions) >= crop_type.days_cycle

\* variant: the harvested flag is not looked at
Inactive_unchecked(crop) == FALSE

\* not crop.active
Inactive(crop) == ~crop.active

\* variant: the date of the last simulation is left where it was
NextSimDate_kept(crop) == crop.last_sim_date

\* crop.last_sim_date += timedelta(days=1)
NextSimDate(crop) == crop.last_sim_date + 1

\* variant: days are counted from zero
DayNumber_fromZero(crop) == Len(crop.conditions)

\* day=len(crop.conditions) + 1
DayNumber(crop) == Len(crop.conditions) + 1

simulate_day(rev, d, crop_id, user_id, temperature, rain, sun_hours) ==
    IF TemperatureNotReal(temperature)
    THEN Raise("InvalidInputError", d)
    ELSE IF RainInvalid(rain)
    THEN Raise("InvalidInputError", d)
    ELSE IF SunHoursInvalid(sun_hours)
    THEN Raise("InvalidInputError", d)
    ELSE LET crop == storage_get_crop_by_id(d, crop_id)
    IN IF crop = None
    THEN Raise("CropNotFoundError", d)
    ELSE LET crop_type == storage_get_crop_type_by_id(d, crop.crop_type_id)
    IN IF crop_type = None
    THEN Raise("CropTypeNotFoundError", d)
    ELSE IF Inactive(crop)
    THEN Raise("InvalidInputError", d)
    ELSE IF NotOwner(d, crop, user_id)
    THEN Raise("ResourceOwnershipError", d)
    ELSE IF CycleFinished(crop, crop_type)
    THEN Raise("InvalidInputError", d)
    ELSE LET env_factor ==
                 _calculate_environment_factor(crop_type, temperature, rain, sun_hours)
             phase_factor == _calculate_phase_factor(crop, crop_type)
             capacity_factor == _calculate_capacity_factor(crop, crop_type)
             growth ==
                 _calculate_growth(crop_type, env_factor, phase_factor, capacity_factor)
             current_biomass == CurrentBiomass(crop, crop_type)
             new_biomass == NewBiomass(current_biomass, growth, crop_type)
             new_condition ==
                 DailyCondition(rev, DayNumber(crop), temperature, rain,
                                sun_hours, new_biomass)
    IN IF new_condition = TypeErrorValue
    THEN Raise("TypeError", d)
    ELSE LET simulated ==
                 [crop EXCEPT !.conditions = Append(@, new_condition),
                              !.last_sim_date = NextSimDate(crop)]
    IN Return(simulated, storage_save_crop(d, simulated))

\* not name or not name.strip()
IsBlank(name) == name \in {"", " "}

\* crop_unique_id stands for str(uuid.uuid4())
create_crop(rev, d, name, crop_type_id, user_id, start_date, crop_unique_id) ==
    LET user == storage_get_user_by_id(d, user_id)
        crop_type == storage_get_crop_type_by_id(d, crop_type_id)
    IN IF user = None
    THEN Raise("UserNotFoundError", d)
    ELSE IF crop_type = None
    THEN Raise("CropTypeNotFoundError", d)
    ELSE IF IsBlank(name)
    THEN Raise("InvalidInputError", d)
    ELSE LET new_crop ==
                 Crop(rev, crop_unique_id, name, user_id, crop_type_id,
                      start_date, start_date, <<>>, TRUE)
    IN IF new_crop = TypeErrorValue
    THEN Raise("TypeError", d)
    ELSE Return(new_crop, storage_save_crop(d, new_crop))

\* variant: only the owner passes
NotOwnerNorAdmin_ownerOnly(requesting_user_id, owner_id, requesting_user) ==
    requesting_user_id # owner_id

\* requesting_user_id != crop.user_id and requesting_user.role != UserRole.ADMIN
NotOwnerNorAdmin(requesting_user_id, owner_id, requesting_user) ==
    requesting_user_id # owner_id /\ UserRole_ne(requesting_user.role, "ADMIN")

get_crop_by_id(d, crop_id, requesting_user_id) ==
    LET requesting_user == storage_get_user_by_id(d, requesting_user_id)
        crop == storage_get_crop_by_id(d, crop_id)
    IN IF requesting_user = None
    THEN Raise("UserNotFoundError", d)
    ELSE IF crop = None
    THEN Raise("CropNotFoundError", d)
    ELSE IF NotOwnerNorAdmin(requesting_user_id, crop.user_id, requesting_user)
    THEN Raise("ResourceOwnershipError", d)
    ELSE Return(crop, d)

\* the stored crops of this owner, in file order
storage_get_crops_by_user(d, user_id) ==
    LET crops == read(d).crops
    IN [i \in { j \in 1..Len(crops) : crops[j].user_id = user_id } |->
           LoadCrop(crops[i])]

get_crops_by_user(d, user_id, requesting_user_id) ==
    LET requesting_user == storage_get_user_by_id(d, requesting_user_id)
        crops == storage_get_crops_by_user(d, user_id)
        owner == storage_get_user_by_id(d, user_id)
    IN IF owner = None
    THEN Raise("UserNotFoundError", d)
    ELSE IF requesting_user = None
    THEN Raise("UserNotFoundError", d)
    ELSE IF NotOwnerNorAdmin(requesting_user_id, user_id, requesting_user)
    THEN Raise("ResourceOwnershipError", d)
    ELSE Return(crops, d)

\* variant: the history is handed out and the stored crop keeps none of it
get_crop_history_consuming(d, crop_id, requesting_user_id) ==
    LET requesting_user == storage_get_user_by_id(d, requesting_user_id)
        crop == storage_get_crop_by_id(d, crop_id)
    IN IF requesting_user = None
    THEN Raise("UserNotFoundError", d)
    ELSE IF crop = None
    THEN Raise("CropNotFoundError", d)
    ELSE IF NotOwnerNorAdmin(requesting_user_id, crop.user_id, requesting_user)
    THEN Raise("ResourceOwnershipError", d)
    ELSE Return(crop.conditions,
                storage_save_crop(d, [crop EXCEPT !.conditions = <<>>]))


get_crop_history(d, crop_id, requesting_user_id) ==
    LET requesting_user == storage_get_user_by_id(d, requesting_user_id)
        crop == storage_get_crop_by_id(d, crop_id)
    IN IF requesting_user = None
    THEN Raise("UserNotFoundError", d)
    ELSE IF crop = None
    THEN Raise("CropNotFoundError", d)
    ELSE IF NotOwnerNorAdmin(requesting_user_id, crop.user_id, requesting_user)
    THEN Raise("ResourceOwnershipError", d)
    ELSE Return(crop.conditions, d)

\* variant: the owner reference is updatable as well
allowed_fields_withOwner == {"name", "active", "user_id"}

\* allowed_fields = ["name", "active"]
allowed_fields == {"name", "active"}

\* setattr(crop, key, value)
SetAttr(crop, key, value) == [crop EXCEPT ![key] = value]

RECURSIVE SetAttrs(_, _)
SetAttrs(crop, kwargs) ==
    IF kwargs = <<>> THEN crop
    ELSE SetAttrs(SetAttr(crop, Head(kwargs)[1], Head(kwargs)[2]), Tail(kwargs))

\* the keys of kwargs before the first one that is not allowed
AllowedPrefix(kwargs) ==
    LET bad == { i \in 1..Len(kwargs) : kwargs[i][1] \notin allowed_fields }
    IN IF bad = {} THEN kwargs
       ELSE SubSeq(kwargs, 1, (CHOOSE i \in bad : \A j \in bad : i <= j) - 1)

\* variant: one loop checks, sets and saves key by key, so the keys before a
\* rejected one are already stored when the error is raised
ApplyKwargs_saveThenRaise(d, crop, kwargs) ==
    LET updated == SetAttrs(crop, AllowedPrefix(kwargs))
    IN IF \E i \in 1..Len(kwargs) : kwargs[i][1] \notin allowed_fields
       THEN Raise("InvalidInputError", storage_save_crop(d, updated))
       ELSE Return(updated, storage_save_crop(d, updated))

\* variant: keys outside the allow-list are skipped, the others are applied
ApplyKwargs_skipDisallowed(d, crop, kwargs) ==
    LET updated ==
            SetAttrs(crop, SelectSeq(kwargs, LAMBDA kv : kv[1] \in allowed_fields))
    IN Return(updated, storage_save_crop(d, updated))

\* lines 279-291: every key is checked against the allow-list, then every
\* key is set, then the crop is saved
ApplyKwargs(d, crop, kwargs) ==
    IF \E i \in 1..Len(kwargs) : kwargs[i][1] \notin allowed_fields
    THEN Raise("InvalidInputError", d)
    ELSE LET updated == SetAttrs(crop, kwargs)
         IN Return(updated, storage_save_crop(d, updated))

update_crops(d, crop_id, requesting_user_id, kwargs) ==
    LET requesting_user == storage_get_user_by_id(d, requesting_user_id)
        crop == storage_get_crop_by_id(d, crop_id)
    IN IF requesting_user = None
    THEN Raise("UserNotFoundError", d)
    ELSE IF crop = None
    THEN Raise("CropNotFoundError", d)
    ELSE IF NotOwnerNorAdmin(requesting_user_id, crop.user_id, requesting_user)
    THEN Raise("ResourceOwnershipError", d)
    ELSE ApplyKwargs(d, crop, kwargs)

\* variant: list.pop(), the last element goes
ListRemove_pop(s, x) == SubSeq(s, 1, Len(s) - 1)

\* list.remove(x): drop the first occurrence
ListRemove(s, x) ==
    LET i == CHOOSE k \in 1..Len(s) : s[k] = x /\ \A j \in 1..(k - 1) : s[j] # x
    IN SubSeq(s, 1, i - 1) \o SubSeq(s, i + 1, Len(s))

\* variant: the crop record is what the first write removes
UnregisterFromOwner_cropFirst(d, owner, crop_id) == storage_delete_crop(d, crop_id)

\* lines 315-317: the first write, made when the owner's crop_ids lists the id
UnregisterFromOwner(d, owner, crop_id) ==
    IF \E k \in 1..Len(owner.crop_ids) : owner.crop_ids[k] = crop_id
    THEN storage_save_user(d, [owner EXCEPT !.crop_ids = ListRemove(@, crop_id)])
    ELSE d

delete_crop(d, crop_id, requesting_user_id) ==
    LET requesting_user == storage_get_user_by_id(d, requesting_user_id)
        crop == storage_get_crop_by_id(d, crop_id)
    IN IF requesting_user = None
    THEN Raise("UserNotFoundError", d)
    ELSE IF crop = None
    THEN Raise("CropNotFoundError", d)
    ELSE LET owner == storage_get_user_by_id(d, crop.user_id)
    IN IF owner = None
    THEN Raise("UserNotFoundError", d)
    ELSE IF NotOwnerNorAdmin(requesting_user_id, crop.user_id, requesting_user)
    THEN Raise("ResourceOwnershipError", d)
    ELSE LET d1 == UnregisterFromOwner(d, owner, crop_id)
    IN Return(None, storage_delete_crop(d1, crop_id))

RECURSIVE SumOf(_, _)
SumOf(conditions, field) ==
    IF conditions = <<>> THEN 0
    ELSE Head(conditions)[field] + SumOf(Tail(conditions), field)

\* variant: the averages of no days are reported as -1, "no data"
ZeroStatistics_noAverages ==
    [average_temperature |-> -1, average_rain |-> -1,
     average_sun_hours |-> -1, total_growth |-> 0,
     stress_days |-> 0, performance_ratio |-> 0]

\* lines 343-351: the result for a crop without recorded days
ZeroStatistics ==
    [average_temperature |-> 0, average_rain |-> 0,
     average_sun_hours |-> 0, total_growth |-> 0,
     stress_days |-> 0, performance_ratio |-> 0]

\* variant: the two bounds count as stress
IsStressDay_inclusive(c, crop_type) ==
    \/ c.temperature * 10 <= crop_type.optimal_temp * 8
    \/ c.temperature * 10 >= crop_type.optimal_temp * 12

\* c.temperature < optimal_temp * 0.8 or c.temperature > optimal_temp * 1.2
IsStressDay(c, crop_type) ==
    \/ c.temperature * 10 < crop_type.optimal_temp * 8
    \/ c.temperature * 10 > crop_type.optimal_temp * 12

get_crop_statistics(d, crop_id, requesting_user_id) ==
    LET requesting_user == storage_get_user_by_id(d, requesting_user_id)
    IN IF requesting_user = None
    THEN Raise("UserNotFoundError", d)
    ELSE LET crop == storage_get_crop_by_id(d, crop_id)
    IN IF crop = None
    THEN Raise("CropNotFoundError", d)
    ELSE IF NotOwnerNorAdmin(requesting_user_id, crop.user_id, requesting_user)
    THEN Raise("ResourceOwnershipError", d)
    ELSE LET crop_type == storage_get_crop_type_by_id(d, crop.crop_type_id)
    IN IF crop_type = None
    THEN Raise("CropTypeNotFoundError", d)
    ELSE LET conditions == crop.conditions
    IN IF conditions = <<>>
    THEN Return(ZeroStatistics, d)
    ELSE LET n == Len(conditions)
             final_biomass == conditions[n].estimated_biomass
             stressed == { i \in 1..n : IsStressDay(conditions[i], crop_type) }
    IN Return([average_temperature |-> SumOf(conditions, "temperature") \div n,
               average_rain |-> SumOf(conditions, "rain") \div n,
               average_sun_hours |-> SumOf(conditions, "sun_hours") \div n,
               total_growth |-> final_biomass - crop_type.initial_biomass,
               stress_days |-> Cardinality(stressed),
               performance_ratio |->
                   (final_biomass * Unit) \div crop_type.potential_performance], d)

(***************************************************************************)
(* The state machine: one action per CropService operation.  ret records   *)
(* the last call: operation, arguments, exception raised, returned value.  *)
(***************************************************************************)
NoArg == "-"

Call(op, crop_id, user_id, arg, out) ==
    /\ db' = out.db
    /\ ret' = [op |-> op, crop_id |-> crop_id, user_id |-> user_id, arg |-> arg,
               err |-> out.err, value |-> out.value]
    /\ UNCHANGED <<models_rev, procs, last_writer>>

WheatType ==
    [id |-> "t1", name |-> "wheat", optimal_temp |-> 2500, needed_water |-> 500,
     needed_light |-> 800, days_cycle |-> DaysCycle, initial_biomass |-> 1000,
     potential_performance |-> 100000]

StoredUser(id, username, role) ==
    [id |-> id, username |-> username, password_hash |-> "hash", role |-> role,
     crop_ids |-> <<>>]

InitialFile ==
    [users |-> << StoredUser("u1", "ana", "user"), StoredUser("adm", "root", "admin") >>,
     crops |-> <<>>,
     crop_types |-> << WheatType >>]

Procs == {"p1", "p2"}

\* a caller that is not inside a call
IdleProc ==
    [pc |-> "idle", crop_id |-> NoArg, user_id |-> NoArg, weather |-> NoArg,
     base |-> None, crop |-> None, data |-> None, err |-> "none", value |-> None,
     overlapped |-> FALSE]

NoCall ==
    [op |-> "none", crop_id |-> NoArg, user_id |-> NoArg, arg |-> NoArg,
     err |-> "none", value |-> None]

Init ==
    /\ db = InitialFile
    /\ ret = NoCall
    /\ models_rev = "final"
    /\ procs = [p \in Procs |-> IdleProc]
    /\ last_writer = NoArg

SimulateDay ==
    \E crop_id \in CallCropIds, user_id \in CallUserIds, w \in Weathers :
        Call("simulate_day", crop_id, user_id, w,
             simulate_day(models_rev, db, crop_id, user_id, w[1], w[2], w[3]))

CreateCrop ==
    \E name \in Names, crop_type_id \in CallTypeIds, user_id \in CallUserIds,
       start_date \in StartDates, crop_unique_id \in CropIds :
        LET out == create_crop(models_rev, db, name, crop_type_id, user_id,
                               start_date, crop_unique_id)
        IN \* uuid4 is drawn once the checks have passed and is not in use
           /\ out.err \in {"none", "TypeError"}
                  => storage_get_crop_by_id(db, crop_unique_id) = None
           /\ Call("create_crop",
                   IF out.err = "none" THEN crop_unique_id ELSE NoArg,
                   user_id, <<name, crop_type_id, start_date>>, out)

GetCropById ==
    \E crop_id \in CallCropIds, user_id \in CallUserIds :
        Call("get_crop_by_id", crop_id, user_id, NoArg,
             get_crop_by_id(db, crop_id, user_id))

GetCropsByUser ==
    \E owner_id \in CallUserIds, user_id \in CallUserIds :
        Call("get_crops_by_user", NoArg, user_id, owner_id,
             get_crops_by_user(db, owner_id, user_id))

GetCropHistory ==
    \E crop_id \in CallCropIds, user_id \in CallUserIds :
        Call("get_crop_history", crop_id, user_id, NoArg,
             get_crop_history(db, crop_id, user_id))

GetCropStatistics ==
    \E crop_id \in CallCropIds, user_id \in CallUserIds :
        Call("get_crop_statistics", crop_id, user_id, NoArg,
             get_crop_statistics(db, crop_id, user_id))

UpdateCrops ==
    \E crop_id \in CallCropIds, user_id \in CallUserIds, kwargs \in Kwargs :
        Call("update_crops", crop_id, user_id, kwargs,
             update_crops(db, crop_id, user_id, kwargs))

DeleteCrop ==
    \E crop_id \in CallCropIds, user_id \in CallUserIds :
        Call("delete_crop", crop_id, user_id, NoArg,
             delete_crop(db, crop_id, user_id))

Next ==
    \/ SimulateDay
    \/ CreateCrop
    \/ GetCropById
    \/ GetCropsByUser
    \/ GetCropHistory
    \/ GetCropStatistics
    \/ UpdateCrops
    \/ DeleteCrop

Spec == Init /\ [][Next]_vars

(***************************************************************************)
(* The service over the record classes of models.py as they are.  The file *)
(* holds one crop written through JSONStorage.save_crop with the seven     *)
(* fields models.py declares.  update_crops is left out: it sets a name    *)
(* that is not a field of that class.                                      *)
(***************************************************************************)
SrcCrop ==
    [id |-> "c1", user_id |-> "u1", crop_type_id |-> "t1",
     start_date |-> isoformat(0), last_sim_date |-> isoformat(0),
     conditions |-> <<>>, active |-> TRUE]

InitSrc ==
    /\ db = [InitialFile EXCEPT !.crops = << SrcCrop >>]
    /\ ret = NoCall
    /\ models_rev = "src"
    /\ procs = [p \in Procs |-> IdleProc]
    /\ last_writer = NoArg

NextSrc ==
    \/ SimulateDay
    \/ CreateCrop
    \/ GetCropById
    \/ GetCropsByUser
    \/ GetCropHistory
    \/ GetCropStatistics
    \/ DeleteCrop

SpecSrc == InitSrc /\ [][NextSrc]_vars

(***************************************************************************)
(* Concurrent callers.  Nothing locks the file, so a simulate_day call of  *)
(* one caller is interleaved with the calls of another at its file         *)
(* accesses: get_crop_by_id reads the file, get_crop_type_by_id reads it,  *)
(* save_crop reads it and then rewrites it.                                *)
(***************************************************************************)
ConcWeathers == {Ideal, Cold}

Proc(p) == procs[p]

Done(p, out) ==
    [Proc(p) EXCEPT !.pc = "done", !.err = out.err, !.value = out.value]

\* lines 124-133: the weather checks, then crop = get_crop_by_id(crop_id)
SimBegin(p) ==
    /\ Proc(p).pc = "idle"
    /\ \E crop_id \in CropIds, user_id \in UserIds, w \in ConcWeathers :
           LET crop == storage_get_crop_by_id(db, crop_id)
               started == [Proc(p) EXCEPT !.crop_id = crop_id,
                                          !.user_id = user_id, !.weather = w]
           IN procs' = [procs EXCEPT ![p] =
                   IF \/ TemperatureNotReal(w[1])
                      \/ RainInvalid(w[2])
                      \/ SunHoursInvalid(w[3])
                   THEN [started EXCEPT !.pc = "done", !.err = "InvalidInputError"]
                   ELSE IF crop = None
                   THEN [started EXCEPT !.pc = "done", !.err = "CropNotFoundError"]
                   ELSE [started EXCEPT !.pc = "got_crop", !.base = crop,
                                        !.crop = crop]]
    /\ UNCHANGED <<db, ret, models_rev, last_writer>>

\* lines 134-171: the crop type is read, the checks run on the crop that was
\* read before, and the new condition is appended to that crop
SimCompute(p) ==
    /\ Proc(p).pc = "got_crop"
    /\ LET me == Proc(p)
           \* the file now holds exactly the crop this caller read
           mine == [db EXCEPT !.crops = << DumpCrop(me.crop) >>]
           out == simulate_day(models_rev, mine, me.crop_id, me.user_id,
                               me.weather[1], me.weather[2], me.weather[3])
       IN procs' = [procs EXCEPT ![p] =
               IF out.err # "none"
               THEN Done(p, out)
               ELSE [me EXCEPT !.pc = "save_crop", !.crop = out.value]]
    /\ UNCHANGED <<db, ret, models_rev, last_writer>>

\* storage.py 344-356: data = self.read(), the crop is put into data
SaveRead(p) ==
    /\ Proc(p).pc = "save_crop"
    /\ procs' = [procs EXCEPT ![p] =
           [Proc(p) EXCEPT !.pc = "save", !.data = PutCrop(read(db), Proc(p).crop)]]
    /\ UNCHANGED <<db, ret, models_rev, last_writer>>

\* storage.py 357 / 361: self.save(data) rewrites the file; the call returns
SaveWrite(p) ==
    /\ Proc(p).pc = "save"
    /\ db' = Proc(p).data
    /\ last_writer' = p
    /\ procs' = [procs EXCEPT ![p] =
           [Proc(p) EXCEPT !.pc = "done", !.err = "none", !.value = Proc(p).crop,
                           !.data = None]]
    /\ UNCHANGED <<ret, models_rev>>

\* the caller takes the result and may call again
SimEnd(p) ==
    /\ Proc(p).pc = "done"
    /\ procs' = [procs EXCEPT ![p] = IdleProc]
    /\ UNCHANGED <<db, ret, models_rev, last_writer>>

\* the file after create_crop("wheat", "t1", "u1", 0)
InitConc ==
    /\ db = create_crop("final", InitialFile, "wheat", "t1", "u1", 0, "c1").db
    /\ ret = NoCall
    /\ models_rev = "final"
    /\ procs = [p \in Procs |-> IdleProc]
    /\ last_writer = NoArg

NextConc ==
    \E p \in Procs :
        \/ SimBegin(p)
        \/ SimCompute(p)
        \/ SaveRead(p)
        \/ SaveWrite(p)
        \/ SimEnd(p)

SpecConc == InitConc /\ [][NextConc]_vars

(***************************************************************************)
(* The store under direct use: JSONStorage.save_user, delete_user,         *)
(* save_crop and delete_crop called with objects the caller builds, and    *)
(* CropService.delete_crop over the resulting files.  The record classes   *)
(* are those of either revision.                                           *)
(***************************************************************************)
StoreCropIds == {"c1", "c2"}

\* User(id, username, password_hash, role, crop_ids)
UserObject(id, username, crop_ids) ==
    [id |-> id, username |-> username, password_hash |-> "hash",
     role |-> IF id = "adm" THEN "ADMIN" ELSE "USER", crop_ids |-> crop_ids]

UserObjects ==
    { UserObject("u1", n, c) :
          n \in {"ana", "bea"}, c \in {<<>>, <<"c1">>, <<"c2", "c1">>} }
    \cup { UserObject("adm", "root", c) : c \in {<<>>, <<"c1">>} }

\* <<temperature, rain, sun_hours, estimated_biomass>> of the recorded days
DaySeqs ==
    { <<>>,
      << <<2500, 500, 800, 5925>> >>,
      << <<2500, 500, 800, 5925>>, <<-1000, 250, 2400, 6185>> >>,
      << <<2000, 500, 800, 5032>>, <<3000, 500, 800, 10230>>,
         <<3001, 500, 800, 13004>> >> }

\* the Crop object of this revision: seven fields in models.py, eight with
\* the name create_crop passes
CropObject(rev, id, user_id, conditions) ==
    IF rev = "src"
    THEN [LoadCrop(SrcCrop) EXCEPT !.id = id, !.user_id = user_id,
                                   !.last_sim_date = Len(conditions),
                                   !.conditions = conditions]
    ELSE Crop_final(id, "wheat", user_id, "t1", 0, Len(conditions), conditions, TRUE)

InitStore ==
    /\ db = InitialFile
    /\ ret = NoCall
    /\ models_rev \in {"src", "final"}
    /\ procs = [p \in Procs |-> IdleProc]
    /\ last_writer = NoArg

StoreSaveUser ==
    \E user \in UserObjects :
        Call("save_user", NoArg, user.id, user,
             Return(None, storage_save_user(db, user)))

StoreDeleteUser ==
    \E user_id \in CallUserIds :
        Call("delete_user", NoArg, user_id, NoArg,
             Return(None, storage_delete_user(db, user_id)))

\* the caller builds the conditions and the crop, then calls save_crop
StoreSaveCrop ==
    \E id \in StoreCropIds, user_id \in UserIds, days \in DaySeqs :
        LET conditions ==
                [i \in 1..Len(days) |->
                    DailyCondition(models_rev, i, days[i][1], days[i][2],
                                   days[i][3], days[i][4])]
            crop == CropObject(models_rev, id, user_id, conditions)
        IN /\ id = "c2" => user_id = "u1"
           /\ Call("save_crop", id, user_id, days,
                   IF \E i \in 1..Len(days) : conditions[i] = TypeErrorValue
                   THEN Raise("TypeError", db)
                   ELSE Return(crop, storage_save_crop(db, crop)))

StoreDeleteCrop ==
    \E crop_id \in StoreCropIds \cup {MissingCropId} :
        Call("storage_delete_crop", crop_id, NoArg, NoArg,
             Return(None, storage_delete_crop(db, crop_id)))

\* the crop_ids of the stored owner of this crop, "-" when there is none
OwnerCropIds(d, crop_id) ==
    LET crop == storage_get_crop_by_id(d, crop_id)
    IN IF crop = None \/ storage_get_user_by_id(d, crop.user_id) = None
       THEN NoArg
       ELSE storage_get_user_by_id(d, crop.user_id).crop_ids

\* ret.arg keeps the owner's crop_ids as the call found them
StoreServiceDeleteCrop ==
    \E crop_id \in StoreCropIds \cup {MissingCropId}, user_id \in CallUserIds :
        Call("delete_crop", crop_id, user_id, OwnerCropIds(db, crop_id),
             delete_crop(db, crop_id, user_id))

\* CropService.delete_crop stopped by an error of the file system inside
\* storage.delete_crop, after save_user has rewritten the file: the checks
\* have passed and the first of the two writes is made
DeleteCropInterrupted ==
    \E crop_id \in StoreCropIds, user_id \in CallUserIds :
        LET crop == storage_get_crop_by_id(db, crop_id)
            owner == storage_get_user_by_id(db, crop.user_id)
        IN /\ delete_crop(db, crop_id, user_id).err = "none"
           /\ \E k \in 1..Len(owner.crop_ids) : owner.crop_ids[k] = crop_id
           /\ Call("delete_crop", crop_id, user_id, OwnerCropIds(db, crop_id),
                   Raise("OSError", UnregisterFromOwner(db, owner, crop_id)))

StoreGetCropStatistics ==
    \E crop_id \in StoreCropIds, user_id \in UserIds :
        Call("get_crop_statistics", crop_id, user_id, NoArg,
             get_crop_statistics(db, crop_id, user_id))

CallUsernames == {"ana", "bea", "root", "zoe"}

StoreGetUserById ==
    \E user_id \in CallUserIds :
        Call("get_user_by_id", NoArg, user_id, NoArg,
             Return(storage_get_user_by_id(db, user_id), db))

StoreGetUserByUsername ==
    \E username \in CallUsernames :
        Call("get_user_by_username", NoArg, NoArg, username,
             Return(storage_get_user_by_username(db, username), db))


NextStore ==
    \/ StoreGetCropStatistics
    \/ StoreGetUserById
    \/ StoreGetUserByUsername
    \/ StoreSaveUser
    \/ StoreDeleteUser
    \/ StoreSaveCrop
    \/ StoreDeleteCrop
    \/ StoreServiceDeleteCrop
    \/ DeleteCropInterrupted

SpecStore == InitStore /\ [][NextStore]_vars


(***************************************************************************)
(* The ten-day scenario: CropType(optimal_temp=25, needed_water=5,         *)
(* needed_light=8, days_cycle=10, initial_biomass=1,                       *)
(* potential_performance=100), one crop of that type created by u1, and    *)
(* its owner simulating days.                                              *)
(***************************************************************************)
ScenarioType == [WheatType EXCEPT !.id = "t10", !.days_cycle = 10]

InitScenario ==
    /\ db = create_crop("final", [InitialFile EXCEPT !.crop_types = << ScenarioType >>],
                        "wheat", "t10", "u1", 0, "c1").db
    /\ ret = NoCall
    /\ models_rev = "final"
    /\ procs = [p \in Procs |-> IdleProc]
    /\ last_writer = NoArg

ScenarioSimulateDay ==
    \E w \in ConcWeathers :
        Call("simulate_day", "c1", "u1", w,
             simulate_day(models_rev, db, "c1", "u1", w[1], w[2], w[3]))

NextScenario == ScenarioSimulateDay

SpecScenario == InitScenario /\ [][NextScenario]_vars


(***************************************************************************)
(* services.py: UserService.  bcrypt is the external primitive: a hash     *)
(* keeps the salt it was made with, and checkpw rehashes with that salt.   *)
(***************************************************************************)
MASTER_KEY == "admin12345"

Salts == {"s1"}

hashpw(password, salt) == [salt |-> salt, digest |-> password]

checkpw(password, hashed) == hashpw(password, hashed.salt) = hashed

\* User(id, username, password_hash, role) with the class of models.py:
\* crop_ids has no default, the constructor raises TypeError
User_src(id, username, password_hash, role) == TypeErrorValue

\* the record with crop_ids defaulting to the empty list
User_final(id, username, password_hash, role) ==
    [id |-> id, username |-> username, password_hash |-> password_hash,
     role |-> role, crop_ids |-> <<>>]

User(rev, id, username, password_hash, role) ==
    IF rev = "src"
    THEN User_src(id, username, password_hash, role)
    ELSE User_final(id, username, password_hash, role)

storage_get_users(d) ==
    LET users == read(d).users
    IN [i \in 1..Len(users) |-> LoadUser(users[i])]

\* variant: the loop over the users is skipped
AdminExists_unchecked(users) == FALSE

\* for user in users: if user.role == UserRole.ADMIN
AdminExists(users) ==
    \E i \in 1..Len(users) : UserRole_eq(users[i].role, "ADMIN")

\* variant: the lookup result is ignored
UsernameHeld_unchecked(d, username) == FALSE

\* if self.storage.get_user_by_username(username)
UsernameHeld(d, username) == storage_get_user_by_username(d, username) # None

\* user_unique_id stands for str(uuid.uuid4()), salt for bcrypt.gensalt()
register_user(rev, d, username, password, salt, user_unique_id) ==
    IF IsBlank(username)
    THEN Raise("InvalidInputError", d)
    ELSE IF IsBlank(password)
    THEN Raise("InvalidInputError", d)
    ELSE IF Len(password) < 8
    THEN Raise("InvalidInputError", d)
    ELSE IF UsernameHeld(d, username)
    THEN Raise("UserAlreadyExistsError", d)
    ELSE LET new_user ==
                 User(rev, user_unique_id, username, hashpw(password, salt), "USER")
    IN IF new_user = TypeErrorValue
    THEN Raise("TypeError", d)
    ELSE Return(new_user, storage_save_user(d, new_user))

register_admin(rev, d, admin_key, username, password, salt, user_unique_id) ==
    IF IsBlank(username)
    THEN Raise("InvalidInputError", d)
    ELSE IF IsBlank(password)
    THEN Raise("InvalidInputError", d)
    ELSE IF IsBlank(admin_key)
    THEN Raise("InvalidInputError", d)
    ELSE IF Len(password) < 8
    THEN Raise("InvalidInputError", d)
    ELSE IF AdminExists(storage_get_users(d))
    THEN Raise("AdminAlreadyExistsError", d)
    ELSE IF admin_key # MASTER_KEY
    \* UnauthorizedAccessError(message): __init__ takes username and
    \* password_hash, so building the exception raises TypeError
    THEN Raise("TypeError", d)
    ELSE IF UsernameHeld(d, username)
    THEN Raise("UserAlreadyExistsError", d)
    ELSE LET new_admin ==
                 User(rev, user_unique_id, username, hashpw(password, salt), "ADMIN")
    IN IF new_admin = TypeErrorValue
    THEN Raise("TypeError", d)
    ELSE Return(new_admin, storage_save_user(d, new_admin))

update_password(d, user_id, old_password, new_password, salt) ==
    IF IsBlank(user_id)
    THEN Raise("InvalidInputError", d)
    ELSE IF old_password = ""
    THEN Raise("InvalidInputError", d)
    ELSE IF new_password = ""
    THEN Raise("InvalidInputError", d)
    ELSE IF Len(new_password) < 8
    THEN Raise("InvalidInputError", d)
    ELSE LET user == storage_get_user_by_id(d, user_id)
    IN IF user = None
    THEN Raise("UserNotFoundError", d)
    ELSE IF ~checkpw(old_password, user.password_hash)
    THEN Raise("AuthorizationError", d)
    ELSE LET new_hashed_password == hashpw(new_password, salt)
    IN Return(None, storage_save_user(d,
                  [user EXCEPT !.password_hash = new_hashed_password]))

update_username(d, user_id, new_username, requesting_user_id) ==
    IF IsBlank(user_id)
    THEN Raise("InvalidInputError", d)
    ELSE IF IsBlank(new_username)
    THEN Raise("InvalidInputError", d)
    ELSE IF IsBlank(requesting_user_id)
    THEN Raise("InvalidInputError", d)
    ELSE LET user == storage_get_user_by_id(d, user_id)
             requesting_user == storage_get_user_by_id(d, requesting_user_id)
    IN IF user = None
    THEN Raise("UserNotFoundError", d)
    ELSE IF requesting_user = None
    THEN Raise("UserNotFoundError", d)
    ELSE IF user_id # requesting_user_id
    THEN Raise("ResourceOwnershipError", d)
    ELSE IF user.username = new_username
    \* a bare raise outside an except block
    THEN Raise("RuntimeError", d)
    ELSE IF UsernameHeld(d, new_username)
    THEN Raise("UserAlreadyExistsError", d)
    ELSE Return(None, storage_save_user(d, [user EXCEPT !.username = new_username]))

\* storage.delete_user(user) receives the User object where it takes the id:
\* u["id"] == user compares a str with a User and is False for every record
ObjectAsId(user) == "<User>"

UserService_delete_user(d, user_id, requesting_user_id) ==
    IF IsBlank(user_id)
    THEN Raise("InvalidInputError", d)
    ELSE IF IsBlank(requesting_user_id)
    THEN Raise("InvalidInputError", d)
    ELSE LET user == storage_get_user_by_id(d, user_id)
             requesting_user == storage_get_user_by_id(d, requesting_user_id)
    IN IF user = None
    THEN Raise("UserNotFoundError", d)
    ELSE IF requesting_user = None
    THEN Raise("UserNotFoundError", d)
    ELSE IF user_id # requesting_user_id /\ UserRole_ne(requesting_user.role, "ADMIN")
    THEN Raise("ResourceOwnershipError", d)
    ELSE Return(None, storage_delete_user(d, ObjectAsId(user)))

(***************************************************************************)
(* The user accounts: one action per UserService operation that writes,    *)
(* over an empty file or a file with one USER and the ADMIN.               *)
(***************************************************************************)
ServiceUser(id, username, role) ==
    [id |-> id, username |-> username,
     password_hash |-> hashpw("password1", "s1"), role |-> role, crop_ids |-> <<>>]

EmptyFile == [users |-> <<>>, crops |-> <<>>, crop_types |-> << WheatType >>]

UserFile ==
    [EmptyFile EXCEPT !.users = << ServiceUser("u1", "ana", "user"),
                                   ServiceUser("adm", "root", "admin") >>]

NewUserIds == {"n1"}
UserCallIds == UserIds \cup NewUserIds \cup {"ghost", " "}
Usernames == {"ana", "root", "bob", " "}
Passwords == {"password1", "password2", "short", ""}
AdminKeys == {MASTER_KEY, "nope", ""}

InitUser ==
    /\ db \in {EmptyFile, UserFile}
    /\ ret = NoCall
    /\ models_rev \in {"src", "final"}
    /\ procs = [p \in Procs |-> IdleProc]
    /\ last_writer = NoArg

RegisterUser ==
    \E username \in Usernames, password \in Passwords, salt \in Salts,
       user_unique_id \in NewUserIds :
        LET out == register_user(models_rev, db, username, password, salt,
                                 user_unique_id)
        IN \* uuid4 is drawn once the checks have passed and is not in use
           /\ out.err \in {"none", "TypeError"}
                  => storage_get_user_by_id(db, user_unique_id) = None
           /\ Call("register_user", NoArg,
                   IF out.err = "none" THEN user_unique_id ELSE NoArg,
                   <<username, password>>, out)

RegisterAdmin ==
    \E admin_key \in AdminKeys, username \in Usernames, password \in Passwords,
       salt \in Salts, user_unique_id \in NewUserIds :
        LET out == register_admin(models_rev, db, admin_key, username, password,
                                  salt, user_unique_id)
        IN /\ out.err \in {"none", "TypeError"}
                  => storage_get_user_by_id(db, user_unique_id) = None
           /\ Call("register_admin", NoArg,
                   IF out.err = "none" THEN user_unique_id ELSE NoArg,
                   <<username, password, admin_key>>, out)

UpdatePassword ==
    \E user_id \in UserCallIds, old_password \in Passwords,
       new_password \in Passwords, salt \in Salts :
        Call("update_password", NoArg, user_id, <<old_password, new_password>>,
             update_password(db, user_id, old_password, new_password, salt))

UpdateUsername ==
    \E user_id \in UserCallIds, new_username \in Usernames,
       requesting_user_id \in UserCallIds :
        Call("update_username", NoArg, requesting_user_id,
             <<user_id, new_username>>,
             update_username(db, user_id, new_username, requesting_user_id))

DeleteUser ==
    \E user_id \in UserCallIds, requesting_user_id \in UserCallIds :
        Call("UserService.delete_user", NoArg, requesting_user_id, <<user_id>>,
             UserService_delete_user(db, user_id, requesting_user_id))

NextUser ==
    \/ RegisterUser
    \/ RegisterAdmin
    \/ UpdatePassword
    \/ UpdateUsername
    \/ DeleteUser

SpecUser == InitUser /\ [][NextUser]_vars


(***************************************************************************)
(* Callers under external per-record serialization: a simulate_day call    *)
(* starts only when no other call on the same crop is in flight; calls on  *)
(* different crops interleave at their file accesses.  overlapped records  *)
(* that some other call was in flight during this one.                     *)
(***************************************************************************)
InFlight(q) == Proc(q).pc \notin {"idle", "done"}

\* lines 124-133 under the per-record lock of the caller
LockBegin(p) ==
    /\ Proc(p).pc = "idle"
    /\ \E crop_id \in StoreCropIds :
           /\ \A q \in Procs \ {p} : InFlight(q) => Proc(q).crop_id # crop_id
           /\ LET crop == storage_get_crop_by_id(db, crop_id)
                  concurrent == \E q \in Procs \ {p} : InFlight(q)
              IN procs' = [q \in Procs |->
                     IF q = p
                     THEN IF crop = None
                          THEN [Proc(p) EXCEPT !.crop_id = crop_id, !.user_id = "u1",
                                               !.weather = Ideal, !.pc = "done",
                                               !.err = "CropNotFoundError",
                                               !.overlapped = concurrent]
                          ELSE [Proc(p) EXCEPT !.crop_id = crop_id, !.user_id = "u1",
                                               !.weather = Ideal, !.pc = "got_crop",
                                               !.base = crop, !.crop = crop,
                                               !.overlapped = concurrent]
                     ELSE IF InFlight(q)
                     THEN [Proc(q) EXCEPT !.overlapped = TRUE]
                     ELSE Proc(q)]
    /\ UNCHANGED <<db, ret, models_rev, last_writer>>

\* the file after create_crop was called twice by u1
InitLock ==
    /\ db = create_crop("final",
                create_crop("final", InitialFile, "wheat", "t1", "u1", 0, "c1").db,
                "wheat", "t1", "u1", 0, "c2").db
    /\ ret = NoCall
    /\ models_rev = "final"
    /\ procs = [p \in Procs |-> IdleProc]
    /\ last_writer = NoArg

NextLock ==
    \E p \in Procs :
        \/ LockBegin(p)
        \/ SimCompute(p)
        \/ SaveRead(p)
        \/ SaveWrite(p)
        \/ SimEnd(p)

SpecLock == InitLock /\ [][NextLock]_vars


(***************************************************************************)
(* The environment factor over the crop types a file can hold and the      *)
(* weather simulate_day accepts.  models.py puts no constraint on the      *)
(* fields of CropType and the file is read as it is.                       *)
(***************************************************************************)
\* needed_water = 0 and needed_light = 0: the two terms are 1
NoNeedsType ==
    [WheatType EXCEPT !.id = "t0", !.needed_water = 0, !.needed_light = 0]

\* optimal_temp = -5
ColdType == [WheatType EXCEPT !.id = "tc", !.optimal_temp = -500]

\* optimal_temp = 10
MildType == [WheatType EXCEPT !.id = "tm", !.optimal_temp = 1000]

EnvTypes == {WheatType, NoNeedsType, ColdType, MildType}

EnvTemperatures == {-1001, -1000, -500, 0, 1000, 2500, 5669, 5670}
EnvRains == {-1, 0, 250, 500, 1000}
EnvSunHours == {0, 400, 800, 2400, 2401}

InitEnv ==
    /\ db = [InitialFile EXCEPT
                !.crop_types = << WheatType, NoNeedsType, ColdType, MildType >>]
    /\ ret = NoCall
    /\ models_rev = "final"
    /\ procs = [p \in Procs |-> IdleProc]
    /\ last_writer = NoArg

\* simulate_day line 145, reached once the weather checks of lines 124-129
\* have passed
EnvironmentFactor ==
    \E crop_type \in EnvTypes, temperature \in EnvTemperatures,
       rain \in EnvRains, sun_hours \in EnvSunHours :
        /\ storage_get_crop_type_by_id(db, crop_type.id) = crop_type
        /\ ~TemperatureNotReal(temperature)
        /\ ~RainInvalid(rain)
        /\ ~SunHoursInvalid(sun_hours)
        /\ Call("_calculate_environment_factor", NoArg, NoArg,
                <<crop_type.id, temperature, rain, sun_hours>>,
                Return(_calculate_environment_factor(crop_type, temperature,
                                                     rain, sun_hours), db))

NextEnv == EnvironmentFactor

SpecEnv == InitEnv /\ [][NextEnv]_vars


TypeOK ==
    /\ models_rev \in {"src", "final"}
    /\ ret.err \in {"none", "InvalidInputError", "CropNotFoundError",
                    "CropTypeNotFoundError", "ResourceOwnershipError",
                    "UserNotFoundError", "TypeError", "OSError",
                    "UserAlreadyExistsError", "AdminAlreadyExistsError",
                    "AuthorizationError", "RuntimeError"}
(***************************************************************************)
(* Properties                                                              *)
(***************************************************************************)
StoredCrop(d, crop_id) == storage_get_crop_by_id(d, crop_id)
TypeOf(d, crop) == storage_get_crop_type_by_id(d, crop.crop_type_id)
Simulated == ret.op = "simulate_day" /\ ret.err = "none"

C2_DeactivatedAtCycleEnd ==
    Simulated =>
        LET crop == StoredCrop(db, ret.crop_id)
        IN Len(crop.conditions) = TypeOf(db, crop).days_cycle
               => (Len(crop.conditions) = DaysCycle /\ crop.active = FALSE)

WeatherInRange(w) ==
    /\ w[1] >= -1000 /\ w[1] < 5670
    /\ w[2] >= 0
    /\ w[3] >= 0 /\ w[3] <= 2400

\* every check of simulate_day passes for this call in file content d
PassesEveryCheck(d, crop_id, user_id, w) ==
    LET crop == StoredCrop(d, crop_id)
    IN /\ WeatherInRange(w)
       /\ crop # None
       /\ TypeOf(d, crop) # None
       /\ crop.active
       /\ crop.user_id = user_id
       /\ Len(crop.conditions) < TypeOf(d, crop).days_cycle

\* the biomass simulate_day records for this call
ExpectedBiomass(crop, crop_type, w) ==
    NewBiomass(CurrentBiomass(crop, crop_type),
               _calculate_growth(crop_type,
                   _calculate_environment_factor(crop_type, w[1], w[2], w[3]),
                   _calculate_phase_factor(crop, crop_type),
                   _calculate_capacity_factor(crop, crop_type)),
               crop_type)

\* C4: a simulate_day call that passes every check returns the crop without
\* error; the file then holds that crop with exactly one more condition, which
\* carries day = previous length + 1, the given temperature, rain and
\* sun_hours and the computed estimated_biomass, and with last_sim_date one
\* day later.
C4_SimulateSucceeds ==
    [][ \A crop_id \in CallCropIds :
            ( /\ ret'.op = "simulate_day"
              /\ ret'.crop_id = crop_id
              /\ PassesEveryCheck(db, crop_id, ret'.user_id, ret'.arg) )
            => LET before == StoredCrop(db, crop_id)
                   after == StoredCrop(db', crop_id)
                   w == ret'.arg
               IN /\ ret'.err = "none"
                  /\ ret'.value = after
                  /\ Len(after.conditions) = Len(before.conditions) + 1
                  /\ SubSeq(after.conditions, 1, Len(before.conditions))
                         = before.conditions
                  /\ after.conditions[Len(after.conditions)]
                         = [day |-> Len(before.conditions) + 1,
                            temperature |-> w[1], rain |-> w[2],
                            sun_hours |-> w[3],
                            estimated_biomass |->
                                ExpectedBiomass(before, TypeOf(db, before), w)]
                  /\ after.last_sim_date = before.last_sim_date + 1
      ]_vars
\* the role string the file holds for this user id, "-" when there is none
RoleInFile(d, user_id) ==
    IF FirstIndex(d.users, user_id) = 0 THEN NoArg
    ELSE d.users[FirstIndex(d.users, user_id)].role

GatedOps ==
    {"get_crop_by_id", "get_crop_history", "get_crop_statistics",
     "update_crops", "delete_crop", "simulate_day"}

\* C7: for get_crop_by_id, get_crop_history, get_crop_statistics,
\* update_crops, delete_crop and simulate_day, a call by an existing user
\* whose role is user on an existing crop of another owner raises the
\* ownership error, whatever the state of the crop (for simulate_day: with
\* weather inside the ranges).
C7_NonOwnerUserRejected ==
    [][ \A crop_id \in CallCropIds :
            LET crop == StoredCrop(db, crop_id)
            IN ( /\ ret'.op \in GatedOps
                 /\ ret'.op = "simulate_day" => WeatherInRange(ret'.arg)
                 /\ ret'.crop_id = crop_id
                 /\ crop # None
                 /\ RoleInFile(db, ret'.user_id) = "user"
                 /\ ret'.user_id # crop.user_id )
               => ret'.err = "ResourceOwnershipError"
      ]_vars

AdminOps ==
    {"get_crop_by_id", "get_crop_history", "get_crop_statistics",
     "update_crops", "delete_crop"}

C10_InputShapeFirst ==
    /\ ( ret.op = "simulate_day" /\ ~WeatherInRange(ret.arg) )
           => ret.err = "InvalidInputError"
    /\ ( ret.op = "create_crop" /\ ret.arg[1] \in {"", " "} )
           => ret.err = "InvalidInputError"
    /\ ( /\ ret.op = "update_crops"
         /\ \E i \in 1..Len(ret.arg) : ret.arg[i][1] \notin {"name", "active"} )
           => ret.err = "InvalidInputError"
\* both callers are back from a successful simulate_day on the same crop, and
\* both had read the same stored crop: each read it before the other wrote
BothReadBeforeEitherWrote(p, q) ==
    /\ p # q
    /\ Proc(p).pc = "done" /\ Proc(q).pc = "done"
    /\ Proc(p).err = "none" /\ Proc(q).err = "none"
    /\ Proc(p).crop_id = Proc(q).crop_id
    /\ Proc(p).base = Proc(q).base

ServiceErrors ==
    {"UserNotFoundError", "CropNotFoundError", "CropTypeNotFoundError",
     "InvalidInputError", "ResourceOwnershipError"}

C12_ActiveOneWay ==
    [][ \A crop_id \in CallCropIds :
            LET before == StoredCrop(db, crop_id)
                after == StoredCrop(db', crop_id)
            IN ( before # None /\ after # None /\ ~before.active )
                   => ~after.active
      ]_vars

HasDisallowedKey(kwargs) ==
    \E i \in 1..Len(kwargs) : kwargs[i][1] \notin {"name", "active"}

C16_CreateCrop ==
    [][ ret'.op = "create_crop" =>
            LET name == ret'.arg[1]
                crop_type_id == ret'.arg[2]
                start_date == ret'.arg[3]
                acceptable ==
                    /\ RoleInFile(db, ret'.user_id) # NoArg
                    /\ FirstIndex(db.crop_types, crop_type_id) # 0
                    /\ name \notin {"", " "}
            IN IF acceptable
               THEN /\ ret'.err = "none"
                    /\ StoredCrop(db, ret'.value.id) = None
                    /\ StoredCrop(db', ret'.value.id) = ret'.value
                    /\ Len(db'.crops) = Len(db.crops) + 1
                    /\ ret'.value.user_id = ret'.user_id
                    /\ ret'.value.crop_type_id = crop_type_id
                    /\ ret'.value.conditions = <<>>
                    /\ ret'.value.active = TRUE
                    /\ ret'.value.start_date = start_date
                    /\ ret'.value.last_sim_date = start_date
               ELSE ret'.err # "none" /\ db' = db
      ]_vars
\* the crop_ids the file holds for this user lists this crop id
Listed(d, user_id, crop_id) ==
    \E k \in 1..Len(d.users) :
        /\ d.users[k].id = user_id
        /\ \E j \in 1..Len(d.users[k].crop_ids) : d.users[k].crop_ids[j] = crop_id

\* C17: after a successful delete_crop(crop_id, requester) the file holds no
\* crop with that id and the crop_ids of the crop's owner does not list it;
\* the other crops, the other users and the crop types are as before.
C17_DeleteCrop ==
    [][ ( ret'.op = "delete_crop" /\ ret'.err = "none" ) =>
            LET crop_id == ret'.crop_id
                owner_id == StoredCrop(db, crop_id).user_id
            IN /\ StoredCrop(db, crop_id) # None
               /\ \A k \in 1..Len(db'.crops) : db'.crops[k].id # crop_id
               /\ ~Listed(db', owner_id, crop_id)
               /\ db'.crops = SelectSeq(db.crops, LAMBDA c : c.id # crop_id)
               /\ Len(db'.users) = Len(db.users)
               /\ \A k \in 1..Len(db.users) :
                      db.users[k].id # owner_id => db'.users[k] = db.users[k]
               /\ db'.crop_types = db.crop_types
      ]_vars

\* c1 was deleted while its owner u1 listed c2 and c1: u1 lists c2 only, the
\* crop c2 is still stored
C17_Witness ==
    /\ ret.op = "delete_crop"
    /\ ret.err = "none"
    /\ ret.crop_id = "c1"
    /\ ret.arg = <<"c2", "c1">>
    /\ StoredCrop(db, "c1") = None
    /\ StoredCrop(db, "c2") # None
    /\ storage_get_user_by_id(db, "u1").crop_ids = <<"c2">>

\* C18 as stated: a delete_crop (taken here when the owner calls it) that
\* fails between its two writes leaves the owner's crop_ids listing a crop id
\* whose crop record is gone.
C18_DanglingReference ==
    [][ ( /\ ret'.op = "delete_crop"
          /\ ret'.err = "OSError"
          /\ ret'.user_id = StoredCrop(db, ret'.crop_id).user_id ) =>
            LET crop_id == ret'.crop_id
                owner_id == StoredCrop(db, crop_id).user_id
            IN /\ StoredCrop(db', crop_id) = None
               /\ Listed(db', owner_id, crop_id)
      ]_vars

\* C18 as amended: when the owner's crop_ids lists the crop, delete_crop makes
\* two separate writes, first the owner's record, then the crop record; a call
\* that fails between them has rewritten the owner's record only: the crop
\* record is still stored and its owner's crop_ids no longer lists it.
C18_TwoWritesInterrupted ==
    [][ \A crop_id \in StoreCropIds :
            LET before == StoredCrop(db, crop_id)
            IN ( /\ ret'.op = "delete_crop"
                 /\ ret'.crop_id = crop_id
                 /\ ret'.err \in {"none", "OSError"}
                 /\ before # None
                 /\ Listed(db, before.user_id, crop_id) )
               => /\ db'.users # db.users
                  /\ ~Listed(db', before.user_id, crop_id)
                  /\ IF ret'.err = "OSError"
                     THEN db'.crops = db.crops /\ StoredCrop(db', crop_id) = before
                     ELSE db'.crops # db.crops /\ StoredCrop(db', crop_id) = None
      ]_vars

\* delete_crop of c1 failed after the owner's record was rewritten: c1 is
\* stored, its owner u1 listed c2 and c1 and now lists c2 only
C18_Witness ==
    /\ ret.op = "delete_crop"
    /\ ret.err = "OSError"
    /\ ret.crop_id = "c1"
    /\ ret.arg = <<"c2", "c1">>
    /\ StoredCrop(db, "c1") # None
    /\ StoredCrop(db, "c1").user_id = "u1"
    /\ storage_get_user_by_id(db, "u1").crop_ids = <<"c2">>

\* what save puts where: the record replaces the one stored under its id at
\* the same position, or goes to the end when the id is not stored
SavedInPlaceOrAppended(s, t, rec) ==
    LET same == { i \in 1..Len(s) : s[i].id = rec.id }
    IN IF same = {}
       THEN t = Append(s, rec)
       ELSE /\ Len(t) = Len(s)
            /\ \A i \in 1..Len(s) : t[i] = IF i \in same THEN rec ELSE s[i]

UniqueIds(s) == \A i, j \in 1..Len(s) : s[i].id = s[j].id => i = j

\* C19: through every sequence of save_user, save_crop and delete calls the
\* users and the crops hold at most one record per id; a save of a stored id
\* replaces that record where it is, every field taken from the saved object,
\* and a save of a new id appends the record.
C19_Upsert ==
    [][ /\ UniqueIds(db'.users)
        /\ UniqueIds(db'.crops)
        /\ ret'.op = "save_user" =>
               /\ SavedInPlaceOrAppended(db.users, db'.users,
                      [id |-> ret'.arg.id, username |-> ret'.arg.username,
                       password_hash |-> ret'.arg.password_hash,
                       role |-> IF ret'.arg.role = "ADMIN" THEN "admin" ELSE "user",
                       crop_ids |-> ret'.arg.crop_ids])
               /\ db'.crops = db.crops
        /\ ( ret'.op = "save_crop" /\ ret'.err = "none" ) =>
               /\ SavedInPlaceOrAppended(db.crops, db'.crops,
                      [ret'.value EXCEPT
                           !.start_date = [iso |-> ret'.value.start_date],
                           !.last_sim_date = [iso |-> ret'.value.last_sim_date]])
               /\ db'.users = db.users
      ]_vars

\* u1 was saved again with another username and another crop_ids: one record
\* for u1, where it was, with the new fields
C19_Witness ==
    /\ ret.op = "save_user"
    /\ ret.arg.username = "bea"
    /\ ret.arg.crop_ids = <<"c1">>
    /\ Len(db.users) = 2
    /\ db.users[1] = [id |-> "u1", username |-> "bea", password_hash |-> "hash",
                      role |-> "user", crop_ids |-> <<"c1">>]
    /\ db.users[2].id = "adm"

\* C20: a Crop built with recorded days (ret.arg) and saved is returned by
\* get_crop_by_id equal to the saved object: the dates, and the conditions in
\* order with day, temperature, rain, sun_hours and estimated_biomass.
C20_RoundTrip ==
    ( ret.op = "save_crop" /\ Len(ret.arg) > 0 ) =>
        /\ ret.err = "none"
        /\ LET loaded == storage_get_crop_by_id(db, ret.crop_id)
           IN /\ loaded = ret.value
              /\ loaded.start_date = 0
              /\ loaded.last_sim_date = Len(ret.arg)
              /\ Len(loaded.conditions) = Len(ret.arg)
              /\ \A i \in 1..Len(ret.arg) :
                     loaded.conditions[i] =
                         [day |-> i, temperature |-> ret.arg[i][1],
                          rain |-> ret.arg[i][2], sun_hours |-> ret.arg[i][3],
                          estimated_biomass |-> ret.arg[i][4]]
StatisticsReturned == ret.op = "get_crop_statistics" /\ ret.err = "none"

Without(s, id) == SelectSeq(s, LAMBDA r : r.id # id)

C26_DeleteById ==
    [][/\ ret'.op = "delete_user"
          => /\ db'.users = Without(db.users, ret'.user_id)
             /\ db'.crops = db.crops
             /\ db'.crop_types = db.crop_types
             /\ FirstIndex(db.users, ret'.user_id) = 0 => db' = db
       /\ ret'.op = "storage_delete_crop"
          => /\ db'.crops = Without(db.crops, ret'.crop_id)
             /\ db'.users = db.users
             /\ db'.crop_types = db.crop_types
             /\ FirstIndex(db.crops, ret'.crop_id) = 0 => db' = db]_vars

\* delete_user("u1") was called on a file with u1 and adm: adm alone is left
C26_Witness ==
    /\ ret.op = "delete_user"
    /\ ret.user_id = "u1"
    /\ Len(db.users) = 1
    /\ db.users[1].id = "adm"
    /\ Len(db.crops) = 2

(***************************************************************************)
(* C27: get_user_by_id and get_user_by_username return the stored user     *)
(* with that id / username, the role as the enum member, and None when no  *)
(* stored user has it; neither raises.                                     *)
(***************************************************************************)
IsStoredUser(value, u) ==
    /\ value.id = u.id
    /\ value.username = u.username
    /\ value.password_hash = u.password_hash
    /\ value.role = UserRole(u.role)
    /\ value.crop_ids = u.crop_ids

C27_UserLookup ==
    /\ ret.op = "get_user_by_id"
       => /\ ret.err = "none"
          /\ IF \E i \in 1..Len(db.users) : db.users[i].id = ret.user_id
             THEN \E i \in 1..Len(db.users) :
                      /\ db.users[i].id = ret.user_id
                      /\ IsStoredUser(ret.value, db.users[i])
             ELSE ret.value = None
    /\ ret.op = "get_user_by_username"
       => /\ ret.err = "none"
          /\ IF \E i \in 1..Len(db.users) : db.users[i].username = ret.arg
             THEN \E i \in 1..Len(db.users) :
                      /\ db.users[i].username = ret.arg
                      /\ IsStoredUser(ret.value, db.users[i])
             ELSE ret.value = None

\* a lookup by a username given by save_user returned that user
C27_Witness ==
    /\ ret.op = "get_user_by_username"
    /\ ret.arg = "bea"
    /\ ret.value # None
    /\ ret.value.id = "u1"
    /\ ret.value.role = "USER"
Admins(d) == { i \in 1..Len(d.users) : d.users[i].role = RoleValue("ADMIN") }

HeldByAnother(d, username, user_id) ==
    \E i \in 1..Len(d.users) :
        d.users[i].username = username /\ d.users[i].id # user_id

UniqueUsernames(d) ==
    \A i, j \in 1..Len(d.users) :
        d.users[i].username = d.users[j].username => i = j

ValidCredentials(username, password) ==
    ~IsBlank(username) /\ ~IsBlank(password) /\ Len(password) >= 8

IsPrefix(s, t) == Len(s) <= Len(t) /\ SubSeq(t, 1, Len(s)) = s

\* the days the call of p returned are days of the stored crop
Reflected(p) ==
    LET stored == StoredCrop(db, Proc(p).crop_id)
    IN /\ stored # None
       /\ IsPrefix(Proc(p).value.conditions, stored.conditions)

Succeeded(p) == Proc(p).pc = "done" /\ Proc(p).err = "none"

C31_EnvironmentFactorRange ==
    ret.op = "_calculate_environment_factor"
        => ( ret.value >= 0 /\ ret.value <= Unit )
(***************************************************************************)
(* C32: get_crop_by_id, get_crop_history, get_crops_by_user and            *)
(* get_crop_statistics leave the file as it was whether they return or     *)
(* raise, and a read repeated with the same arguments right after itself   *)
(* gives the same outcome.                                                 *)
(***************************************************************************)
ReadOps ==
    {"get_crop_by_id", "get_crop_history", "get_crops_by_user",
     "get_crop_statistics"}

C33_OneCollectionPerWrite ==
    [][ /\ ret'.op \in {"save_user", "delete_user"}
           => ( db'.crops = db.crops /\ db'.crop_types = db.crop_types )
        /\ ret'.op \in {"save_crop", "storage_delete_crop"}
           => ( db'.users = db.users /\ db'.crop_types = db.crop_types )
      ]_vars

\* JSONStorage.delete_crop("c1") ran on a file whose user u1 lists c1: the
\* crop is gone and the user's list is as it was
C33_Witness ==
    /\ ret.op = "storage_delete_crop"
    /\ ret.crop_id = "c1"
    /\ StoredCrop(db, "c1") = None
    /\ StoredCrop(db, "c2") # None
    /\ \E i \in 1..Len(db.users) : db.users[i].crop_ids = <<"c2", "c1">>
(***************************************************************************)
(* C34: after UserService.delete_user(user_id, requesting_user_id) has     *)
(* returned for a call by the user or by the ADMIN, no stored user has     *)
(* that id.                                                                *)
(***************************************************************************)
C34_DeleteUserRemoves ==
    ( /\ ret.op = "UserService.delete_user"
      /\ ret.err = "none"
      /\ \/ ret.user_id = ret.arg[1]
         \/ \E i \in 1..Len(db.users) :
                db.users[i].id = ret.user_id /\ db.users[i].role = RoleValue("ADMIN") )
        => storage_get_user_by_id(db, ret.arg[1]) = None
====
